---------------------------- MODULE Spec2Model ----------------------------
(***************************************************************************)
(* Terrain streaming of playform.                                          *)
(*                                                                         *)
(*  - TerrainGameLoader (src/src/terrain/terrain_game_loader.rs): applies  *)
(*    the LOD changes the per-owner demand map (LODMap) reports, against   *)
(*    the physics, the GPU buffers and the in-progress placeholder set.    *)
(*  - update_thread (src/client/lib/src/update_thread.rs): the client's    *)
(*    update cycle with its pending-request set.                           *)
(*  - apply_client_to_view (src/client/lib/src/view_update.rs): the view   *)
(*    thread's application of an update, Atomic batches included.          *)
(*                                                                         *)
(* LODMap, Physics, TerrainVRAMBuffers, InProgressTerrain and Terrain are  *)
(* used by the loader but their sources are not part of src/; they are     *)
(* modelled from their contracts in spec.md (sections 3, 4.1, 4.4, 6).     *)
(***************************************************************************)
EXTENDS Integers, Sequences, FiniteSets, TLC

\* ------------------------------------------------------------------ bounds
NumOwners == 2       \* owner ids 1..NumOwners
IdsPerBlock == 1     \* entity ids of a non-empty TerrainBlock
NumPositions == 2    \* chunk positions the surroundings enumerator yields
MaxLgVoxelSize == 1  \* lg_voxel_size values 0..MaxLgVoxelSize
MaxInbound == 1      \* server updates queued for recv_server
MaxBatch == 2        \* sub-updates in one view_update::T::Atomic

\* ------------------------------------------------------- program constants
NumLods == 4         \* texture_generators: [TerrainTextureGenerator; 4]
MAX_OUTSTANDING_TERRAIN_REQUESTS == 1

\* The loader's calls for different chunks share no state but the capacity of
\* the GPU buffers, which is an input of every call here: one block position.
Chunks == {1}
Owners == 1..NumOwners
LodIndexes == 0..(NumLods - 1)

\* ---------------------------------------------------------- LOD, Option
\* LOD::LodIndex(k) is the integer k; LOD::Placeholder and Option::None are
\* two integers outside 0..NumLods-1.
Placeholder == -1
None == -2
LODs == LodIndexes \cup {Placeholder}
OptLODs == LODs \cup {None}

\* Detail rank of an Option<LOD>: lowest LodIndex is the finest, any LodIndex
\* is finer than Placeholder, Placeholder is finer than no demand.
Rank(l) ==
  IF l = None THEN 0
  ELSE IF l = Placeholder THEN 1
  ELSE 2 + (NumLods - 1 - l)

Finer(a, b) == Rank(a) > Rank(b)
FinerEq(a, b) == Rank(a) >= Rank(b)

\* The finest Option<LOD> among the values of a per-owner demand function,
\* computed as the maximum rank.
FinestOf(owner_lods) ==
  CHOOSE l \in {owner_lods[o] : o \in Owners} :
    \A o \in Owners : FinerEq(l, owner_lods[o])


\* ------------------------------------------------------------------ state
VARIABLES
  lod_map,              \* TerrainGameLoader.lod_map: chunk -> [owner_lods, loaded_lod]
  physics,              \* entity ids with a shape in Physics
  vram_ids,             \* entity ids with a slot in TerrainVRAMBuffers
  vram_block_data,      \* <<lod, chunk>> block data held by TerrainVRAMBuffers
  in_progress_terrain,  \* chunks with a placeholder in InProgressTerrain
  empty_blocks,         \* the world: <<chunk, lod>> whose TerrainBlock has no ids
  ops,                  \* calls issued by the last loader call, in order
  last,                 \* the last loader call and what it returned
  scenario              \* how far the calls so far follow the two-owner scenario

loader_vars ==
  <<lod_map, physics, vram_ids, vram_block_data, in_progress_terrain,
    empty_blocks, ops, last, scenario>>

VARIABLES
  quit,                      \* the shared quit flag
  pc,                        \* where update_thread is
  pending_terrain_requests,  \* client.pending_terrain_requests
  inbound,                   \* server updates recv_server has yet to return
  at_server,                 \* chunk requests the server has yet to answer
  sent_count,                \* RequestChunk messages per pair since its last removal
  loop_i,                    \* the running phase's loop counter i
  over_budget,               \* the running phase has used up its 1 ms
  player_position,           \* client.player_position, as a chunk position
  updates_from,              \* the position the running enumerator started from
  step,                      \* what the update thread's last step did
  phases,                    \* the phases started in the current iteration
  removed_in_drain,          \* pairs the drain removed, until update_surroundings' second turn
  since_sample,              \* updates applied since the drain's last clock sample
  sampled,                   \* the running drain has sampled the clock
  locks                      \* the mutexes the update thread holds, and its last step's lock calls

update_vars ==
  <<quit, pc, pending_terrain_requests, inbound, at_server, sent_count, loop_i,
    over_budget, player_position, updates_from, step, phases, removed_in_drain,
    since_sample, sampled, locks>>

VARIABLES
  view,         \* view::T, with the log of the updates applied to it
  view_before,  \* the view when the update was received
  view_up,      \* the view_update::T received
  view_pc       \* "received" until apply_client_to_view has returned, then "applied"

view_vars == <<view, view_before, view_up, view_pc>>

vars == <<loader_vars, update_vars, view_vars>>

\* ------------------------------------------------ LODMap (lod_map::LODMap)
NoChange == [some |-> FALSE, loaded |-> None, desired |-> None]
LodChange(loaded, desired) == [some |-> TRUE, loaded |-> loaded, desired |-> desired]

NoDemand == [o \in Owners |-> None]

OwnerLods(m, c) == IF c \in DOMAIN m THEN m[c].owner_lods ELSE NoDemand
LoadedLod(m, c) == IF c \in DOMAIN m THEN m[c].loaded_lod ELSE None

\* The map with chunk c's owner demands and loaded LOD set; the entry is
\* dropped when no owner demands the chunk any more.
WithEntry(m, c, owner_lods, loaded_lod) ==
  IF \A o \in Owners : owner_lods[o] = None
  THEN [d \in DOMAIN m \ {c} |-> m[d]]
  ELSE [d \in DOMAIN m \cup {c} |->
          IF d = c
          THEN [owner_lods |-> owner_lods, loaded_lod |-> loaded_lod]
          ELSE m[d]]

\* LODMap::increase_lod(position, target_lod: LOD, owner): records the owner's
\* demand and recomputes the aggregate; if the aggregate changed, the change
\* carries the old loaded LOD and the new desired one. Returns the owner's
\* previous demand with it.
lod_map_increase_lod(m, c, target_lod, owner) ==
  LET owner_lods == [OwnerLods(m, c) EXCEPT ![owner] = target_lod]
      loaded     == LoadedLod(m, c)
      desired    == FinestOf(owner_lods)
  IN  [ map      |-> WithEntry(m, c, owner_lods, desired),
        prev_lod |-> OwnerLods(m, c)[owner],
        change   |-> IF desired # loaded THEN LodChange(loaded, desired)
                     ELSE NoChange ]

\* The same with the aggregate left as it was when other owners remain.
lod_map_decrease_lod_stale(m, c, target_lod, owner) ==
  LET owner_lods == [OwnerLods(m, c) EXCEPT ![owner] = target_lod]
      loaded     == LoadedLod(m, c)
      desired    == IF \A o \in Owners : owner_lods[o] = None THEN None ELSE loaded
  IN  [ map      |-> WithEntry(m, c, owner_lods, desired),
        prev_lod |-> OwnerLods(m, c)[owner],
        change   |-> IF Finer(loaded, desired) THEN LodChange(loaded, desired)
                     ELSE NoChange ]

\* LODMap::decrease_lod(position, target_lod: Option<LOD>, owner): symmetric;
\* None withdraws the owner's demand. The aggregate is recomputed across the
\* remaining owners; if it became coarser (or vanished), that is the change.
lod_map_decrease_lod(m, c, target_lod, owner) ==
  LET owner_lods == [OwnerLods(m, c) EXCEPT ![owner] = target_lod]
      loaded     == LoadedLod(m, c)
      desired    == FinestOf(owner_lods)
  IN  [ map      |-> WithEntry(m, c, owner_lods, desired),
        prev_lod |-> OwnerLods(m, c)[owner],
        change   |-> IF Finer(loaded, desired) THEN LodChange(loaded, desired)
                     ELSE NoChange ]

\* The calling protocol of the map: an increase asks for a LOD at least as
\* fine as the owner's demand; a decrease needs a registered demand and asks
\* for a coarser-or-equal one, or for none.
ValidIncrease(m, c, target_lod, owner) ==
  /\ target_lod \in LODs
  /\ \/ OwnerLods(m, c)[owner] = None
     \/ FinerEq(target_lod, OwnerLods(m, c)[owner])

ValidDecrease(m, c, target_lod, owner) ==
  /\ target_lod \in OptLODs
  /\ OwnerLods(m, c)[owner] # None
  /\ FinerEq(OwnerLods(m, c)[owner], target_lod)

\* ------------------------------------------------- collaborators' state
\* The entity ids of the TerrainBlock generated for chunk c at LOD index l
\* (block.ids, and the ids of block.bounds); Terrain caches the block, so the
\* ids are the same on every load.
BlockIds(c, l) ==
  IF <<c, l>> \in empty_blocks THEN {}
  ELSE {<<c, l, i>> : i \in 1..IdsPerBlock}

BlockIdSeq(c, l) ==
  IF <<c, l>> \in empty_blocks THEN <<>>
  ELSE [i \in 1..IdsPerBlock |-> <<c, l, i>>]

\* The id of the physics placeholder InProgressTerrain holds for chunk c.
PlaceholderId(c) == <<c, Placeholder, 1>>

CurrentWorld ==
  [physics |-> physics, vram_ids |-> vram_ids,
   vram_block_data |-> vram_block_data,
   in_progress_terrain |-> in_progress_terrain]

\* One call in the log: its name, the chunk, the LOD (of the block, or the
\* target of a map call; Placeholder for the in-progress placeholder) and the
\* entity (0: the whole block) or, for a map call, the owner.
Op(name, c, l, i) == [op |-> name, chunk |-> c, lod |-> l, id |-> i]

\* re_lod_block, "Unload whatever's there": for every id of the loaded block
\* physics.remove_terrain then vram_buffers.swap_remove, then free_block_data.
UnloadOps(c, loaded_lod) ==
  IF loaded_lod = None THEN <<>>
  ELSE IF loaded_lod = Placeholder
  THEN << Op("in_progress_terrain.remove", c, Placeholder, 0) >>
  ELSE LET ids == BlockIdSeq(c, loaded_lod)
       IN  [k \in 1..(2 * Len(ids)) |->
              IF k % 2 = 1
              THEN Op("physics.remove_terrain", c, loaded_lod, ids[(k + 1) \div 2][3])
              ELSE Op("vram_buffers.swap_remove", c, loaded_lod, ids[k \div 2][3])]
           \o << Op("vram_buffers.free_block_data", c, loaded_lod, 0) >>

Unload(w, c, loaded_lod) ==
  IF loaded_lod = None THEN w
  ELSE IF loaded_lod = Placeholder
  THEN [w EXCEPT !.in_progress_terrain = @ \ {c},
                 !.physics = @ \ {PlaceholderId(c)}]
  ELSE [w EXCEPT !.physics = @ \ BlockIds(c, loaded_lod),
                 !.vram_ids = @ \ BlockIds(c, loaded_lod),
                 !.vram_block_data = @ \ {<<loaded_lod, c>>}]

\* re_lod_block, "Load whatever we should be loading": terrain.load hands the
\* block to the closure, which inserts the physics shapes of every bound and
\* then, unless the block has no ids, pushes the block data and the vertices;
\* push_ok is what vram_buffers.push returns.
LoadOps(c, new_lod) ==
  IF new_lod = None THEN <<>>
  ELSE IF new_lod = Placeholder
  THEN << Op("in_progress_terrain.insert", c, Placeholder, 0) >>
  ELSE LET ids == BlockIdSeq(c, new_lod)
       IN  << Op("terrain.load", c, new_lod, 0) >>
           \o [k \in 1..Len(ids) |-> Op("physics.insert_terrain", c, new_lod, ids[k][3])]
           \o (IF ids = <<>> THEN <<>>
               ELSE << Op("vram_buffers.push_block_data", c, new_lod, 0),
                       Op("vram_buffers.push", c, new_lod, 0) >>)

Load(w, c, new_lod, push_ok) ==
  IF new_lod = None THEN w
  ELSE IF new_lod = Placeholder
  THEN [w EXCEPT !.in_progress_terrain = @ \cup {c},
                 !.physics = @ \cup {PlaceholderId(c)}]
  ELSE IF BlockIds(c, new_lod) = {}
  THEN w
  ELSE [w EXCEPT !.physics = @ \cup BlockIds(c, new_lod),
                 !.vram_block_data = @ \cup {<<new_lod, c>>},
                 !.vram_ids = IF push_ok THEN @ \cup BlockIds(c, new_lod) ELSE @]

LoadSuccess(c, new_lod, push_ok) ==
  IF new_lod \in LodIndexes /\ BlockIds(c, new_lod) # {} THEN push_ok ELSE TRUE

\* TerrainGameLoader::re_lod_block: unload, then load; false if pushing into
\* the buffers fails.
re_lod_block(w, c, loaded_lod, new_lod, push_ok) ==
  [ world   |-> Load(Unload(w, c, loaded_lod), c, new_lod, push_ok),
    ops     |-> UnloadOps(c, loaded_lod) \o LoadOps(c, new_lod),
    success |-> LoadSuccess(c, new_lod, push_ok) ]

\* What vram_buffers.push may return when re_lod_block loads new_lod: the
\* push is attempted only for a LodIndex whose block has ids, and the buffers
\* accept or reject it.
PushOutcomes(c, new_lod) ==
  IF new_lod \in LodIndexes /\ BlockIds(c, new_lod) # {} THEN BOOLEAN ELSE {TRUE}

\* "match lod_change { None => true, ... }": what the loader returns when the
\* map reports no change.
no_change_result_false == FALSE
no_change_result == TRUE

\* "if !success": the map entry is reverted when the change was not applied.
should_revert_inverted(success) == success
should_revert(success) == ~success

\* increase_lod's revert: self.lod_map.decrease_lod(*block_position, prev_lod, owner)
revert_increase_skipped(m, c, prev_lod, owner) ==
  [ map |-> m, ops |-> <<>> ]
revert_increase(m, c, prev_lod, owner) ==
  [ map |-> lod_map_decrease_lod(m, c, prev_lod, owner).map,
    ops |-> << Op("lod_map.decrease_lod", c, prev_lod, owner) >> ]

\* decrease_lod's revert:
\* prev_lod.map(|prev_lod| self.lod_map.increase_lod(*block_position, prev_lod, owner))
revert_decrease_skipped(m, c, prev_lod, owner) ==
  [ map |-> m, ops |-> <<>> ]
revert_decrease(m, c, prev_lod, owner) ==
  IF prev_lod = None
  THEN [ map |-> m, ops |-> <<>> ]
  ELSE [ map |-> lod_map_increase_lod(m, c, prev_lod, owner).map,
         ops |-> << Op("lod_map.increase_lod", c, prev_lod, owner) >> ]


\* ------------------------------------------------------ TerrainGameLoader
\* The record of a loader call: the call, what the map returned for it, what
\* the loader returned, the map before the call, and whether it repeats the
\* call before it (the same increase_lod, whose map entry was not reverted).
Call(name, c, target_lod, owner, res, success) ==
  [ op |-> name, chunk |-> c, owner |-> owner, target |-> target_lod,
    prev_lod |-> res.prev_lod, change |-> res.change, success |-> success,
    before |-> lod_map,
    repeat |-> /\ name = "increase_lod"
               /\ last.op = "increase_lod"
               /\ last.chunk = c /\ last.owner = owner /\ last.target = target_lod
               /\ last.success ]

\* The two-owner scenario on chunk 1 of an empty map: owner 1 asks for
\* LodIndex(2), owner 2 for LodIndex(0), owner 2 withdraws, owner 1 withdraws,
\* each applied successfully. The step of the scenario this call completes.
ScenarioStep(call) ==
  IF call.chunk = 1 /\ call.success
  THEN IF call.op = "increase_lod" /\ call.owner = 1 /\ call.target = 2
          /\ call.before = << >>
       THEN 1
       ELSE IF scenario = 1 /\ call.op = "increase_lod" /\ call.owner = 2
               /\ call.target = 0
       THEN 2
       ELSE IF scenario = 2 /\ call.op = "decrease_lod" /\ call.owner = 2
               /\ call.target = None
       THEN 3
       ELSE IF scenario = 3 /\ call.op = "decrease_lod" /\ call.owner = 1
               /\ call.target = None
       THEN 4
       ELSE 0
  ELSE 0

\* What a loader call leaves behind: the map, the collaborators, the log and
\* the record of the call.
Commit(m, w, log, call) ==
  /\ lod_map' = m
  /\ physics' = w.physics
  /\ vram_ids' = w.vram_ids
  /\ vram_block_data' = w.vram_block_data
  /\ in_progress_terrain' = w.in_progress_terrain
  /\ ops' = log
  /\ last' = call
  /\ scenario' = ScenarioStep(call)
  /\ UNCHANGED <<empty_blocks, update_vars, view_vars>>

\* TerrainGameLoader::increase_lod
increase_lod(c, target_lod, owner) ==
  \E res \in {lod_map_increase_lod(lod_map, c, target_lod, owner)} :
  \E first \in {<< Op("lod_map.increase_lod", c, target_lod, owner) >>} :
    IF ~res.change.some
    THEN Commit(res.map, CurrentWorld, first,
                Call("increase_lod", c, target_lod, owner, res, no_change_result))
    ELSE \E push_ok \in PushOutcomes(c, res.change.desired) :
         \E r \in {re_lod_block(CurrentWorld, c, res.change.loaded,
                                res.change.desired, push_ok)} :
           IF should_revert(r.success)
           THEN \* We failed to change LOD. Revert the lod_map entry.
                \E rv \in {revert_increase(res.map, c, res.prev_lod, owner)} :
                  Commit(rv.map, r.world, first \o r.ops \o rv.ops,
                         Call("increase_lod", c, target_lod, owner, res, r.success))
           ELSE Commit(res.map, r.world, first \o r.ops,
                       Call("increase_lod", c, target_lod, owner, res, r.success))

\* TerrainGameLoader::decrease_lod
decrease_lod(c, target_lod, owner) ==
  \E res \in {lod_map_decrease_lod(lod_map, c, target_lod, owner)} :
  \E first \in {<< Op("lod_map.decrease_lod", c, target_lod, owner) >>} :
    IF ~res.change.some
    THEN Commit(res.map, CurrentWorld, first,
                Call("decrease_lod", c, target_lod, owner, res, no_change_result))
    ELSE \E push_ok \in PushOutcomes(c, res.change.desired) :
         \E r \in {re_lod_block(CurrentWorld, c, res.change.loaded,
                                res.change.desired, push_ok)} :
           IF should_revert(r.success)
           THEN \* We failed to change LOD. Revert the lod_map entry.
                \E rv \in {revert_decrease(res.map, c, res.prev_lod, owner)} :
                  Commit(rv.map, r.world, first \o r.ops \o rv.ops,
                         Call("decrease_lod", c, target_lod, owner, res, r.success))
           ELSE Commit(res.map, r.world, first \o r.ops,
                       Call("decrease_lod", c, target_lod, owner, res, r.success))

\* A caller (an owner) raises its demand for a chunk.
IncreaseLod ==
  \E c \in Chunks, target_lod \in LODs, owner \in Owners :
    /\ ValidIncrease(lod_map, c, target_lod, owner)
    /\ increase_lod(c, target_lod, owner)

\* A caller (an owner) lowers or withdraws its demand for a chunk.
DecreaseLod ==
  \E c \in Chunks, target_lod \in OptLODs, owner \in Owners :
    /\ ValidDecrease(lod_map, c, target_lod, owner)
    /\ decrease_lod(c, target_lod, owner)

NoCall ==
  [ op |-> "new", chunk |-> 0, owner |-> 0, target |-> None,
    prev_lod |-> None, change |-> NoChange, success |-> TRUE,
    before |-> << >>, repeat |-> FALSE ]

\* The blocks without ids when the chunk's surface is lost from LOD index k on
\* (the coarser the LOD, the coarser the sampling): none for k = NumLods, all
\* for k = 0.
EmptyFrom(k) == {<<c, l>> \in Chunks \X LodIndexes : l >= k}

\* The worlds considered: every block has ids, no block has, or only the
\* blocks of the finer half of the LODs have.
Worlds == {EmptyFrom(NumLods), EmptyFrom(0), EmptyFrom(NumLods \div 2)}

\* TerrainGameLoader::new: an empty map, nothing resident; the world's content
\* is whatever the generator makes of each block.
LoaderInit ==
  /\ lod_map = << >>
  /\ physics = {}
  /\ vram_ids = {}
  /\ vram_block_data = {}
  /\ in_progress_terrain = {}
  /\ empty_blocks \in Worlds
  /\ ops = <<>>
  /\ last = NoCall
  /\ scenario = 0

\* ------------------------------------------------------- update_thread
Positions == 1..NumPositions
LgVoxelSizes == 0..MaxLgVoxelSize
Pairs == Positions \X LgVoxelSizes

LoadTypes == {"Load", "Downgrade", "Unload"}
LoadResults == {"Success", "AlreadyLoaded", "ChunkMissing"}

\* protocol::ServerToClient: the chunk data answering a request, or any other
\* update.
ChunkUpdate(pair) == [kind |-> "Chunk", position |-> pair[1], lg_voxel_size |-> pair[2]]
OtherUpdate == [kind |-> "Other", position |-> 0, lg_voxel_size |-> 0]

\* What a step of the update thread did: the phase, whether it was the first
\* turn of the phase's loop, whether the loop was left on backpressure,
\* whether an entry of the enumerator was taken and which load type it had,
\* what try_load_chunk returned, the pair of a request, the calls made, the
\* pending set the step started with, and whether the phase ended.
Step(phase, blocked, entry, load_type, result, pair, calls, ended) ==
  [ phase |-> phase, first |-> loop_i = 0, blocked |-> blocked,
    entry |-> entry, load_type |-> load_type, result |-> result, pair |-> pair,
    calls |-> calls, pending_before |-> pending_terrain_requests,
    ended |-> ended ]

NoPair == <<0, 0>>

PlainStep(phase, ended) ==
  Step(phase, FALSE, FALSE, "none", "none", NoPair, <<>>, ended)

UpdateInit ==
  /\ quit = FALSE
  /\ pc = "update_loop"
  /\ pending_terrain_requests = {}
  /\ inbound = <<>>
  /\ at_server = {}
  /\ sent_count = [pair \in Pairs |-> 0]
  /\ loop_i = 0
  /\ over_budget = FALSE
  /\ player_position = 1
  /\ updates_from = 0
  /\ step = [ phase |-> "new", first |-> FALSE, blocked |-> FALSE,
              entry |-> FALSE, load_type |-> "none", result |-> "none",
              pair |-> NoPair, calls |-> <<>>, pending_before |-> {},
              ended |-> FALSE ]
  /\ phases = <<>>
  /\ removed_in_drain = {}
  /\ since_sample = 0
  /\ sampled = FALSE
  /\ locks = [before |-> <<>>, log |-> <<>>, held |-> <<>>, stuck |-> FALSE]

\* ------------------------------------------------- the thread's mutexes
\* mutex.lock().unwrap() and the drop of the guard it returned.
Lock(mutex) == [op |-> "lock", mutex |-> mutex]
Unlock(mutex) == [op |-> "unlock", mutex |-> mutex]

\* The guards held, oldest first, after the first k of a sequence of lock
\* calls made holding `held`.
RECURSIVE HeldAfter(_, _, _)
HeldAfter(held, log, k) ==
  IF k = 0 THEN held
  ELSE LET h == HeldAfter(held, log, k - 1)
       IN  IF log[k].op = "lock"
           THEN Append(h, log[k].mutex)
           ELSE SelectSeq(h, LAMBDA m : m # log[k].mutex)

IsHeld(h, mutex) == \E j \in 1..Len(h) : h[j] = mutex

\* std::sync::Mutex is not reentrant: a lock() of a mutex the thread holds
\* never returns.
Relocks(held, log) ==
  \E k \in 1..Len(log) :
    log[k].op = "lock" /\ IsHeld(HeldAfter(held, log, k - 1), log[k].mutex)

\* "let should_quit = *quit.lock().unwrap();"
quit_locks == << Lock("quit"), Unlock("quit") >>

\* update_surroundings before its loop: the player's position is copied out
\* of its guard, the guards of surroundings_loader and terrain are bound.
surroundings_entry_locks ==
  << Lock("player_position"), Unlock("player_position"),
     Lock("surroundings_loader"), Lock("terrain") >>

\* "if client.pending_terrain_requests.lock().unwrap().len() as u32 >= ...":
\* the guard is a temporary of the condition.
backpressure_check_locks_kept == << Lock("pending_terrain_requests") >>
backpressure_check_locks ==
  << Lock("pending_terrain_requests"), Unlock("pending_terrain_requests") >>

\* One entry: try_load_chunk's rng guard is a temporary of the let statement,
\* and so is the guard of the insert into the pending set.
entry_locks(load_type, r) ==
  IF load_type = "Unload" THEN <<>>
  ELSE << Lock("rng"), Unlock("rng") >>
       \o (IF r = "ChunkMissing"
           THEN << Lock("pending_terrain_requests"),
                   Unlock("pending_terrain_requests") >>
           ELSE <<>>)

\* update_surroundings returns: terrain's guard is dropped, then
\* surroundings_loader's.
surroundings_exit_locks ==
  << Unlock("terrain"), Unlock("surroundings_loader") >>

\* process_voxel_updates: the guards of terrain and rng live to the end of
\* the function, the guard of player_position to the end of its statement.
voxel_update_locks ==
  << Lock("terrain"), Lock("rng"),
     Lock("player_position"), Unlock("player_position"),
     Unlock("rng"), Unlock("terrain") >>

PhaseEntryLocks(phase) ==
  IF phase = "update_surroundings" THEN surroundings_entry_locks ELSE <<>>

\* The lock calls of a step of the update thread, which leaves it at next_pc.
StepLocks(st, next_pc) ==
  CASE st.phase = "update_loop" ->
         quit_locks \o PhaseEntryLocks(next_pc)
    [] st.phase = "process_server_updates" ->
         IF st.ended THEN PhaseEntryLocks(next_pc) ELSE <<>>
    [] st.phase = "update_surroundings" ->
         backpressure_check_locks
           \o (IF st.entry THEN entry_locks(st.load_type, st.result) ELSE <<>>)
           \o (IF st.ended
               THEN surroundings_exit_locks \o PhaseEntryLocks(next_pc)
               ELSE <<>>)
    [] st.phase = "process_voxel_updates" -> voxel_update_locks

\* The step's lock calls are made.
TakeLocks(log) ==
  locks' = [ before |-> locks.held, log |-> log,
             held |-> HeldAfter(locks.held, log, Len(log)),
             stuck |-> Relocks(locks.held, log) ]

\* update_thread: the order of an iteration, from the quit check through the
\* three phases and back.
phase_after_no_drain(phase) ==
  CASE phase = "update_loop" -> "update_surroundings"
    [] phase = "process_server_updates" -> "update_surroundings"
    [] phase = "update_surroundings" -> "process_voxel_updates"
    [] phase = "process_voxel_updates" -> "update_loop"
phase_after_swapped(phase) ==
  CASE phase = "update_loop" -> "update_surroundings"
    [] phase = "update_surroundings" -> "process_server_updates"
    [] phase = "process_server_updates" -> "process_voxel_updates"
    [] phase = "process_voxel_updates" -> "update_loop"
phase_after(phase) ==
  CASE phase = "update_loop" -> "process_server_updates"
    [] phase = "process_server_updates" -> "update_surroundings"
    [] phase = "update_surroundings" -> "process_voxel_updates"
    [] phase = "process_voxel_updates" -> "update_loop"

\* A phase starts: let start = time::precise_time_ns(); let mut i = 0; and,
\* in update_surroundings, the enumerator is made from the player's position.
EnterPhase(phase) ==
  /\ pc' = phase
  /\ loop_i' = 0
  /\ over_budget' = FALSE
  /\ phases' = IF pc = "update_loop" THEN <<phase>> ELSE Append(phases, phase)
  /\ updates_from' = IF phase = "update_surroundings" THEN player_position' ELSE 0
  /\ since_sample' = 0
  /\ sampled' = FALSE

\* One more turn of a phase's loop: the counter as the loop leaves it, and
\* whether the budget has run out by now.
StayInPhase(next_i, over) ==
  /\ pc' = pc
  /\ loop_i' = next_i
  /\ over_budget' = over
  /\ UNCHANGED <<phases, updates_from>>

\* "if should_quit { break 'update_loop }"
leaves_loop_never(should_quit) == FALSE
leaves_loop(should_quit) == should_quit

\* update_thread, 'update_loop: the quit flag is read, and the loop is left or
\* the iteration's first phase starts.
update_loop ==
  /\ pc = "update_loop"
  /\ ~locks.stuck
  /\ UNCHANGED <<quit, pending_terrain_requests, inbound, at_server, sent_count,
                 player_position>>
  /\ IF leaves_loop(quit)
     THEN /\ pc' = "done"
          /\ UNCHANGED <<loop_i, over_budget, phases, updates_from, since_sample,
                         sampled>>
     ELSE EnterPhase(phase_after("update_loop"))
  /\ step' = PlainStep("update_loop", TRUE)
  /\ removed_in_drain' = {}
  /\ TakeLocks(StepLocks(step', pc'))

\* apply_server_update on the pending set: the data of a chunk removes the
\* request it answers.
apply_server_update(pending, up) ==
  IF up.kind = "Chunk"
  THEN pending \ {<<up.position, up.lg_voxel_size>>}
  ELSE pending

\* apply_server_update on the player's position: an update of the player
\* moves it.
apply_player_update(position, up, to) ==
  IF up.kind = "Other" THEN to ELSE position

\* process_server_updates: "if i > 10" the clock is read.
drain_samples_clock_late(n) == n > 12
drain_samples_clock(n) == n > 10

\* process_server_updates, one turn of "while let Some(up) = recv_server()".
process_server_updates ==
  /\ pc = "process_server_updates"
  /\ ~locks.stuck
  /\ IF inbound = <<>>
     THEN /\ player_position' = player_position
          /\ EnterPhase(phase_after("process_server_updates"))
          /\ step' = PlainStep("process_server_updates", TRUE)
          /\ UNCHANGED <<pending_terrain_requests, inbound, sent_count,
                         removed_in_drain>>
     ELSE \E up \in {Head(inbound)}, tick \in BOOLEAN, to \in Positions :
          /\ inbound' = Tail(inbound)
          /\ pending_terrain_requests' =
               apply_server_update(pending_terrain_requests, up)
          /\ player_position' = apply_player_update(player_position, up, to)
          /\ removed_in_drain' =
               removed_in_drain
                 \cup (pending_terrain_requests \ pending_terrain_requests')
          /\ sent_count' =
               [pair \in Pairs |->
                  IF pair \in pending_terrain_requests
                     /\ pair \notin pending_terrain_requests'
                  THEN 0 ELSE sent_count[pair]]
          /\ IF drain_samples_clock(loop_i)
             THEN IF over_budget \/ tick
                  THEN /\ EnterPhase(phase_after("process_server_updates"))
                       /\ step' = Step("process_server_updates", FALSE, TRUE, "none",
                                       "none", NoPair,
                                       <<"apply_server_update", "precise_time_ns">>,
                                       TRUE)
                  ELSE /\ StayInPhase((loop_i - 10) + 1, over_budget \/ tick)
                       /\ since_sample' = 0
                       /\ sampled' = TRUE
                       /\ step' = Step("process_server_updates", FALSE, TRUE, "none",
                                       "none", NoPair,
                                       <<"apply_server_update", "precise_time_ns">>,
                                       FALSE)
             ELSE /\ StayInPhase(loop_i + 1, over_budget \/ tick)
                  /\ since_sample' = since_sample + 1
                  /\ sampled' = sampled
                  /\ step' = Step("process_server_updates", FALSE, TRUE, "none",
                                  "none", NoPair, <<"apply_server_update">>, FALSE)
  /\ TakeLocks(StepLocks(step', pc'))
  /\ UNCHANGED <<quit, at_server>>

\* update_surroundings: the loop is left once this many requests are pending.
backpressure_reached_above(n) == n > MAX_OUTSTANDING_TERRAIN_REQUESTS
backpressure_reached(n) == n >= MAX_OUTSTANDING_TERRAIN_REQUESTS

\* update_surroundings: client.pending_terrain_requests...insert(pair)
insert_request_dropped(pending, pair) == pending
insert_request(pending, pair) == pending \cup {pair}

\* update_surroundings: "if !request_already_exists" the request is sent.
sends_request_inverted(request_already_exists) == request_already_exists
sends_request(request_already_exists) == ~request_already_exists

\* update_surroundings: "if i >= 10" the clock is read.
surroundings_samples_clock(n) == n >= 10

\* update_surroundings: the calls made for one entry of the enumerator.
EntryCalls(load_type, r, sent) ==
  IF load_type = "Unload" THEN <<"terrain.unload">>
  ELSE IF r # "ChunkMissing" THEN <<"terrain.try_load_chunk">>
  ELSE <<"terrain.try_load_chunk", "pending_terrain_requests.insert">>
       \o (IF sent THEN <<"update_server">> ELSE <<>>)

\* update_surroundings, one turn of its loop: the backpressure check, the next
\* entry of the enumerator (or none), the load or unload of the chunk with
\* the request of a missing one, and the time budget.
update_surroundings ==
  /\ pc = "update_surroundings"
  /\ ~locks.stuck
  /\ removed_in_drain' = IF loop_i = 0 THEN removed_in_drain ELSE {}
  /\ UNCHANGED <<quit, inbound, player_position>>
  /\ IF backpressure_reached(Cardinality(pending_terrain_requests))
     THEN /\ EnterPhase(phase_after("update_surroundings"))
          /\ step' = Step("update_surroundings", TRUE, FALSE, "none", "none",
                          NoPair, <<>>, TRUE)
          /\ UNCHANGED <<pending_terrain_requests, at_server, sent_count>>
     ELSE \/ \* updates.next() is None
             /\ EnterPhase(phase_after("update_surroundings"))
             /\ step' = PlainStep("update_surroundings", TRUE)
             /\ UNCHANGED <<pending_terrain_requests, at_server, sent_count>>
          \/ \* updates.next() is Some((chunk_position, load_type))
             \E load_type \in LoadTypes, tick \in BOOLEAN :
             \E r \in (IF load_type = "Unload" THEN {"none"} ELSE LoadResults) :
             \E pair \in (IF r = "ChunkMissing" THEN Pairs ELSE {NoPair}) :
             \E sent \in {r = "ChunkMissing"
                          /\ sends_request(pair \in pending_terrain_requests)} :
               /\ IF r = "ChunkMissing"
                  THEN /\ pending_terrain_requests' =
                            insert_request(pending_terrain_requests, pair)
                       /\ IF sent
                          THEN /\ at_server' = at_server \cup {pair}
                               /\ sent_count' =
                                    [sent_count EXCEPT ![pair] = @ + 1]
                          ELSE UNCHANGED <<at_server, sent_count>>
                  ELSE UNCHANGED <<pending_terrain_requests, at_server, sent_count>>
               /\ IF surroundings_samples_clock(loop_i)
                  THEN IF over_budget \/ tick
                       THEN /\ EnterPhase(phase_after("update_surroundings"))
                            /\ step' = Step("update_surroundings", FALSE, TRUE,
                                            load_type, r, pair,
                                            EntryCalls(load_type, r, sent), TRUE)
                       ELSE /\ StayInPhase((loop_i - 10) + 1, over_budget \/ tick)
                            /\ UNCHANGED <<since_sample, sampled>>
                            /\ step' = Step("update_surroundings", FALSE, TRUE,
                                            load_type, r, pair,
                                            EntryCalls(load_type, r, sent), FALSE)
                  ELSE /\ StayInPhase(loop_i + 1, over_budget \/ tick)
                       /\ UNCHANGED <<since_sample, sampled>>
                       /\ step' = Step("update_surroundings", FALSE, TRUE,
                                       load_type, r, pair,
                                       EntryCalls(load_type, r, sent), FALSE)
  /\ TakeLocks(StepLocks(step', pc'))

\* process_voxel_updates: terrain.tick; the iteration ends.
process_voxel_updates ==
  /\ pc = "process_voxel_updates"
  /\ ~locks.stuck
  /\ pc' = phase_after("process_voxel_updates")
  /\ removed_in_drain' = {}
  /\ step' = Step("process_voxel_updates", FALSE, FALSE, "none", "none", NoPair,
                  <<"terrain.tick">>, TRUE)
  /\ TakeLocks(StepLocks(step', pc'))
  /\ UNCHANGED <<quit, pending_terrain_requests, inbound, at_server, sent_count,
                 loop_i, over_budget, player_position, updates_from, phases,
                 since_sample, sampled>>

\* What the update thread does not change.
thread_vars ==
  <<pc, pending_terrain_requests, sent_count, loop_i, over_budget,
    player_position, updates_from, step, phases, removed_in_drain, since_sample,
    sampled, locks>>

\* The server answers a request with the chunk's data.
ServerReply ==
  \E pair \in at_server :
    /\ Len(inbound) < MaxInbound
    /\ inbound' = Append(inbound, ChunkUpdate(pair))
    /\ at_server' = at_server \ {pair}
    /\ UNCHANGED <<quit, thread_vars>>

\* The server sends an update that answers no request.
ServerOther ==
  /\ Len(inbound) < MaxInbound
  /\ inbound' = Append(inbound, OtherUpdate)
  /\ UNCHANGED <<quit, at_server, thread_vars>>

\* Another thread sets the quit flag.
SetQuit ==
  /\ ~quit
  /\ quit' = TRUE
  /\ UNCHANGED <<inbound, at_server, thread_vars>>

\* ---------------------------------------------------------- view_update
\* view_update::T: the kind, the entity id (0 when the update has none), the
\* value carried (position, sun, triangles) and, for Atomic, the sub-updates.
Leaf(kind, id, val) == [kind |-> kind, id |-> id, val |-> val, updates |-> <<>>]
MoveCamera(position) == Leaf("MoveCamera", 0, position)
UpdatePlayer(id, triangles) == Leaf("UpdatePlayer", id, triangles)
UpdateMob(id, triangles) == Leaf("UpdateMob", id, triangles)
SetSun(sun) == Leaf("SetSun", 0, sun)
AddBlock(id) == Leaf("AddBlock", id, 0)
RemoveTerrain(id) == Leaf("RemoveTerrain", id, 0)
RemoveGrass(id) == Leaf("RemoveGrass", id, 0)
Atomic(updates) == [kind |-> "Atomic", id |-> 0, val |-> 0, updates |-> updates]

\* The view's buffers: insert replaces the entry of the id, push appends the
\* ids, swap_remove moves the last id into the slot of the removed one.
buffer_insert(buffer, id, val) ==
  {e \in buffer : e[1] # id} \cup {<<id, val>>}

buffer_push(buffer, ids) == buffer \o ids

buffer_swap_remove(buffer, id) ==
  IF \A k \in 1..Len(buffer) : buffer[k] # id
  THEN buffer
  ELSE LET at == CHOOSE k \in 1..Len(buffer) :
                   buffer[k] = id /\ \A j \in 1..(k - 1) : buffer[j] # id
           n  == Len(buffer)
       IN  [k \in 1..(n - 1) |-> IF k = at THEN buffer[n] ELSE buffer[k]]

\* apply_client_to_view, the arms of the updates that are no Atomic; the log
\* gets the update.
apply_leaf(v, up) ==
  LET w == [v EXCEPT !.log = Append(@, up)]
  IN  CASE up.kind = "MoveCamera" -> [w EXCEPT !.camera = up.val]
        [] up.kind = "UpdateMob" ->
             [w EXCEPT !.mob_buffers = buffer_insert(@, up.id, up.val)]
        [] up.kind = "UpdatePlayer" ->
             [w EXCEPT !.player_buffers = buffer_insert(@, up.id, up.val)]
        [] up.kind = "SetSun" ->
             IF v.input_mode = "Sun" THEN w ELSE [w EXCEPT !.sun = up.val]
        [] up.kind = "AddBlock" ->
             [w EXCEPT !.terrain_buffers = buffer_push(@, <<up.id>>),
                       !.grass_buffers = buffer_push(@, <<up.id>>)]
        [] up.kind = "RemoveTerrain" ->
             [w EXCEPT !.terrain_buffers = buffer_swap_remove(@, up.id)]
        [] up.kind = "RemoveGrass" ->
             [w EXCEPT !.grass_buffers = buffer_swap_remove(@, up.id)]

RECURSIVE apply_client_to_view(_, _)
RECURSIVE apply_updates(_, _, _)
RECURSIVE apply_updates_reversed(_, _, _)

\* The sub-updates applied last to first.
apply_updates_reversed(v, updates, k) ==
  IF k > Len(updates) THEN v
  ELSE apply_updates_reversed(
         apply_client_to_view(v, updates[Len(updates) + 1 - k]), updates, k + 1)

\* "for up in updates.into_iter() { apply_client_to_view(view, up); }", from
\* the k-th sub-update on.
apply_updates(v, updates, k) ==
  IF k > Len(updates) THEN v
  ELSE apply_updates(apply_client_to_view(v, updates[k]), updates, k + 1)

\* view_update::apply_client_to_view
apply_client_to_view(v, up) ==
  IF up.kind = "Atomic"
  THEN apply_updates(v, up.updates, 1)
  ELSE apply_leaf(v, up)

\* The lists of at most MaxBatch elements of S.
Batches(S) == UNION {[1..n -> S] : n \in 0..MaxBatch}

\* The updates over a set of leaves: a leaf, or an Atomic of leaves and of
\* Atomics of leaves.
UpdatesOver(leaves) ==
  leaves \cup
    {Atomic(b) : b \in Batches(leaves \cup {Atomic(c) : c \in Batches(leaves)})}

\* view::T::new, in the given input mode.
NewView(input_mode) ==
  [ camera |-> 0, sun |-> 0, input_mode |-> input_mode,
    mob_buffers |-> {}, player_buffers |-> {},
    terrain_buffers |-> <<>>, grass_buffers |-> <<>>, log |-> <<>> ]

\* The views and the leaves an update for them is made of: camera and sun
\* with the sun under the view's or the user's control, and the buffers of a
\* view that shows two blocks, a mob and a player.
ViewCases ==
  { [ view |-> NewView("Camera"),
      leaves |-> {MoveCamera(1), MoveCamera(2), SetSun(1)} ],
    [ view |-> NewView("Sun"),
      leaves |-> {SetSun(1), SetSun(2), MoveCamera(1)} ],
    [ view |-> [NewView("Camera") EXCEPT !.terrain_buffers = <<1, 2>>,
                                         !.grass_buffers = <<1, 2>>],
      leaves |-> {AddBlock(3), RemoveTerrain(1), RemoveGrass(1)} ],
    [ view |-> [NewView("Camera") EXCEPT !.mob_buffers = {<<1, 0>>},
                                         !.player_buffers = {<<1, 0>>}],
      leaves |-> {UpdateMob(1, 1), UpdateMob(1, 2), UpdatePlayer(1, 1)} ] }

NoUpdate == Atomic(<<>>)

\* No view update is being applied.
ViewIdle ==
  /\ view = NewView("Camera")
  /\ view_before = NewView("Camera")
  /\ view_up = NoUpdate
  /\ view_pc = "idle"

\* The view thread has received an update for its view.
ViewInit ==
  \E case \in ViewCases :
    /\ view = case.view
    /\ view_before = case.view
    /\ view_up \in UpdatesOver(case.leaves)
    /\ view_pc = "received"

\* The view thread applies the update it received.
ApplyClientToView ==
  /\ view_pc = "received"
  /\ view' = apply_client_to_view(view, view_up)
  /\ view_pc' = "applied"
  /\ UNCHANGED <<view_before, view_up>>

\* ----------------------------------------------------------- specifications
\* The loader, called by its owners.
Init == LoaderInit /\ UpdateInit /\ ViewIdle

Next == IncreaseLod \/ DecreaseLod

Spec == Init /\ [][Next]_vars

\* The client's update thread, the server and the quit flag.
UpdateThreadInit ==
  /\ LoaderInit
  /\ empty_blocks = EmptyFrom(NumLods)
  /\ UpdateInit
  /\ ViewIdle

\* What the update thread's steps leave alone.
not_update_vars == <<loader_vars, view_vars>>

UpdateThreadNext ==
  \/ (update_loop /\ UNCHANGED not_update_vars)
  \/ (process_server_updates /\ UNCHANGED not_update_vars)
  \/ (update_surroundings /\ UNCHANGED not_update_vars)
  \/ (process_voxel_updates /\ UNCHANGED not_update_vars)
  \/ (ServerReply /\ UNCHANGED not_update_vars)
  \/ (ServerOther /\ UNCHANGED not_update_vars)
  \/ (SetQuit /\ UNCHANGED not_update_vars)

UpdateSpec == UpdateThreadInit /\ [][UpdateThreadNext]_vars

\* The same under fair scheduling: the update thread keeps running, the clock
\* advances, so that a phase that keeps looping runs out of its budget, and
\* the server answers the requests it holds.
ThreadStep ==
  (update_loop \/ process_server_updates \/ update_surroundings
     \/ process_voxel_updates) /\ UNCHANGED not_update_vars

BudgetRunsOut ==
  /\ (process_server_updates \/ update_surroundings) /\ UNCHANGED not_update_vars
  /\ ~over_budget
  /\ (over_budget' \/ pc' # pc)

UpdateFairSpec ==
  /\ UpdateThreadInit
  /\ [][UpdateThreadNext]_vars
  /\ WF_vars(ThreadStep)
  /\ SF_vars(BudgetRunsOut)
  /\ SF_vars(ServerReply /\ UNCHANGED not_update_vars)

\* The view thread, applying one update.
ViewSpecInit ==
  /\ LoaderInit
  /\ empty_blocks = EmptyFrom(NumLods)
  /\ UpdateInit
  /\ ViewInit

ViewNext == ApplyClientToView /\ UNCHANGED <<loader_vars, update_vars>>

ViewSpec == ViewSpecInit /\ [][ViewNext]_vars

\* ------------------------------------------------- properties of the loader
LoaderCalled == last.op \in {"increase_lod", "decrease_lod"}

\* The call obtained a LodChange, applying it failed, and the loader reverted.
FailedCall == LoaderCalled /\ last.change.some /\ ~last.success

LastOp == ops[Len(ops)]

\* Entities of chunk c's block at LOD l (Placeholder: the placeholder) that
\* are resident in the physics or in the GPU buffers.
PhysicsOf(c, l) == {e \in physics : e[1] = c /\ e[2] = l}
VramOf(c, l) == {e \in vram_ids : e[1] = c /\ e[2] = l}
EntitiesOf(c, l) == PhysicsOf(c, l) \cup VramOf(c, l)
EntitiesIn(ph, vr, c, l) == {e \in ph \cup vr : e[1] = c /\ e[2] = l}

\* The representation of l is resident for chunk c: the placeholder for
\* Placeholder, every physics shape and GPU slot of the block for a LodIndex
\* (nothing is asked of None).
HoldsRepresentation(c, l) ==
  /\ l = Placeholder => (c \in in_progress_terrain /\ PlaceholderId(c) \in physics)
  /\ l \in LodIndexes => (BlockIds(c, l) \subseteq physics /\ BlockIds(c, l) \subseteq vram_ids)

\* C1. Aggregation invariant: after every loader call (reverted ones included)
\* the LOD the map records as loaded for a chunk is the finest of the owners'
\* demands: at least as fine as each demand and equal to one of them (None
\* when no owner demands the chunk).
C1_AggregationInvariant ==
  \A c \in Chunks :
    LET demands == OwnerLods(lod_map, c)
        loaded  == LoadedLod(lod_map, c)
    IN  /\ \A o \in Owners : FinerEq(loaded, demands[o])
        /\ \E o \in Owners : demands[o] = loaded

\* A reverted call has returned while two owners hold different demands.
C1_Witness ==
  /\ FailedCall
  /\ \E c \in DOMAIN lod_map : \E o1, o2 \in Owners :
       /\ lod_map[c].owner_lods[o2] # None
       /\ Finer(lod_map[c].owner_lods[o1], lod_map[c].owner_lods[o2])

\* C2. Rollback exactness: when increase_lod got a LodChange and applying it
\* failed, the loader's last call is lod_map.decrease_lod(chunk, prev_lod,
\* owner), and the whole map equals the map before the increase_lod call.
C2_RollbackExactness ==
  (last.op = "increase_lod" /\ FailedCall) =>
    /\ LastOp = Op("lod_map.decrease_lod", last.chunk, last.prev_lod, last.owner)
    /\ lod_map = last.before

\* A failed increase_lod of an owner that already had a demand, in a map
\* with an entry for the chunk.
C2_Witness ==
  /\ last.op = "increase_lod" /\ FailedCall
  /\ last.prev_lod # None
  /\ last.chunk \in DOMAIN last.before

\* C3. Capacity failure leaves the chunk at its previous loaded LOD: after a
\* loader call that returned false, the LOD the map records as loaded is the
\* one that was loaded before the call, and its representation (placeholder,
\* or the block's physics shapes and GPU slots) is resident.
C3_FailureKeepsLoadedLod ==
  FailedCall =>
    /\ LoadedLod(lod_map, last.chunk) = last.change.loaded
    /\ HoldsRepresentation(last.chunk, LoadedLod(lod_map, last.chunk))

\* C4. Backpressure bound: the pending-request set never holds more than
\* MAX_OUTSTANDING_TERRAIN_REQUESTS pairs.
C4_BackpressureBound ==
  Cardinality(pending_terrain_requests) <= MAX_OUTSTANDING_TERRAIN_REQUESTS

\* update_surroundings starts a later iteration with the set at its limit.
C4_Witness ==
  /\ pc = "update_surroundings" /\ loop_i = 0
  /\ Cardinality(pending_terrain_requests) = MAX_OUTSTANDING_TERRAIN_REQUESTS

\* C5. Request dedup: for every pair, exactly one RequestChunk message has
\* been passed to update_server since the pair was inserted into the pending
\* set, for as long as it stays there, and none is sent for a pair outside it.
C5_RequestDedup ==
  \A pair \in Pairs :
    sent_count[pair] = IF pair \in pending_terrain_requests THEN 1 ELSE 0

\* A pair is still pending, its one request sent, when update_surroundings
\* starts again in a later iteration.
C5_Witness ==
  /\ pc = "update_surroundings" /\ loop_i = 0
  /\ \E pair \in pending_terrain_requests : sent_count[pair] = 1

\* The order of a call's log: every removal of the old block comes before
\* every insert or push of the new one, and every id of the old block has its
\* physics and GPU removal and the block its free_block_data.
RemovalOps == {"physics.remove_terrain", "vram_buffers.swap_remove",
               "vram_buffers.free_block_data"}
InsertOps == {"physics.insert_terrain", "vram_buffers.push_block_data",
              "vram_buffers.push"}

C6_RemovalsBeforeInserts ==
  (LoaderCalled /\ last.change.some
     /\ last.change.loaded \in LodIndexes /\ last.change.desired \in LodIndexes) =>
    /\ \A i, j \in 1..Len(ops) :
         (ops[i].op \in RemovalOps /\ ops[j].op \in InsertOps) => i < j
    /\ \A e \in BlockIds(last.chunk, last.change.loaded) :
         /\ \E i \in 1..Len(ops) :
              ops[i] = Op("physics.remove_terrain", last.chunk, last.change.loaded, e[3])
         /\ \E i \in 1..Len(ops) :
              ops[i] = Op("vram_buffers.swap_remove", last.chunk, last.change.loaded, e[3])
    /\ \E i \in 1..Len(ops) :
         ops[i] = Op("vram_buffers.free_block_data", last.chunk, last.change.loaded, 0)

\* C6. No double residency: in a re_lod_block call between two LodIndexes the
\* removals of the old block precede the inserts of the new one, and neither
\* when the call starts nor when it has returned are entities of both LODs of
\* the chunk resident together.
C6_NoDoubleResidency ==
  [][ ( /\ last'.op \in {"increase_lod", "decrease_lod"}
        /\ last'.change.some
        /\ last'.change.loaded \in LodIndexes
        /\ last'.change.desired \in LodIndexes )
      => /\ C6_RemovalsBeforeInserts'
         /\ ~ ( /\ EntitiesIn(physics, vram_ids, last'.chunk, last'.change.loaded) # {}
                /\ EntitiesIn(physics, vram_ids, last'.chunk, last'.change.desired) # {} )
         /\ ~ ( /\ EntitiesIn(physics', vram_ids', last'.chunk, last'.change.loaded) # {}
                /\ EntitiesIn(physics', vram_ids', last'.chunk, last'.change.desired) # {} )
    ]_vars

\* C7. A failed load is atomic with respect to physics: after a call whose
\* load of LodIndex(k) failed on the GPU push, no physics shape of the
\* attempted block remains inserted.
C7_FailedLoadLeavesNoPhysics ==
  FailedCall => PhysicsOf(last.chunk, last.change.desired) = {}

\* C8. The two-owner scenario: the LodChange of each of its four calls, and
\* no map entry for the chunk after the last.
C8_Scenario ==
  /\ scenario = 1 => last.change = LodChange(None, 2)
  /\ scenario = 2 => last.change = LodChange(2, 0)
  /\ scenario = 3 => last.change = LodChange(0, 2)
  /\ scenario = 4 => (last.change = LodChange(2, None) /\ 1 \notin DOMAIN lod_map)

\* The scenario has run to its end.
C8_Witness == scenario = 4

\* C9. Idempotence: an increase_lod that repeats the one before it gets no
\* LodChange from the map, leaves the map as it was, and the loader returns
\* true having called nothing but the map.
C9_Idempotence ==
  last.repeat =>
    /\ ~last.change.some
    /\ last.success
    /\ lod_map = last.before
    /\ ops = << Op("lod_map.increase_lod", last.chunk, last.target, last.owner) >>

\* The same increase_lod was called twice in a row, and the chunk is loaded.
C9_Witness ==
  /\ last.repeat
  /\ LoadedLod(lod_map, last.chunk) \in LodIndexes

\* C10. Rollback after a failed decrease: when decrease_lod got a LodChange
\* and applying it failed, the loader's last call is lod_map.increase_lod(
\* chunk, prev_lod, owner) when prev_lod is Some, and the chunk's per-owner
\* demands and loaded LOD are those before the decrease_lod call.
C10_DecreaseRollback ==
  (last.op = "decrease_lod" /\ FailedCall) =>
    /\ last.prev_lod # None =>
         LastOp = Op("lod_map.increase_lod", last.chunk, last.prev_lod, last.owner)
    /\ OwnerLods(lod_map, last.chunk) = OwnerLods(last.before, last.chunk)
    /\ LoadedLod(lod_map, last.chunk) = LoadedLod(last.before, last.chunk)

\* A decrease_lod failed: the coarser block another owner still demands could
\* not be pushed.
C10_Witness ==
  /\ last.op = "decrease_lod" /\ FailedCall
  /\ last.prev_lod # None

\* The owners' demands for the last call's chunk as the calls so far leave
\* them: the caller's target replaces its demand when the call returned true,
\* and nothing changes when it returned false.
DemandsAfterLast ==
  IF last.success
  THEN [OwnerLods(last.before, last.chunk) EXCEPT ![last.owner] = last.target]
  ELSE OwnerLods(last.before, last.chunk)

\* C14. Map entry lifecycle: after every loader call the chunk's recorded
\* demands are the owners' current demands and the chunk has a map entry if
\* and only if some owner has a demand; an entry appears only with a
\* successful increase_lod on a chunk no owner demanded, and disappears only
\* with the last owner's decrease_lod to None, whose unload has been applied.
C14_EntryLifecycle ==
  LoaderCalled =>
    LET c == last.chunk
        loaded_before == LoadedLod(last.before, c)
    IN  /\ OwnerLods(lod_map, c) = DemandsAfterLast
        /\ c \in DOMAIN lod_map <=> (\E o \in Owners : DemandsAfterLast[o] # None)
        /\ DOMAIN lod_map \ {c} = DOMAIN last.before \ {c}
        /\ (c \in DOMAIN lod_map /\ c \notin DOMAIN last.before) =>
             (last.op = "increase_lod" /\ last.success)
        /\ (c \notin DOMAIN lod_map /\ c \in DOMAIN last.before) =>
             /\ last.op = "decrease_lod" /\ last.target = None /\ last.success
             /\ \A o \in Owners \ {last.owner} : OwnerLods(last.before, c)[o] = None
             /\ last.change = LodChange(loaded_before, None)
             /\ ops = << Op("lod_map.decrease_lod", c, None, last.owner) >>
                        \o UnloadOps(c, loaded_before)
             /\ EntitiesOf(c, loaded_before) = {}
             /\ <<loaded_before, c>> \notin vram_block_data
             /\ c \notin in_progress_terrain

\* The last of two owners has withdrawn its demand for a loaded block and the
\* entry is gone.
C14_Witness ==
  /\ last.op = "decrease_lod" /\ last.target = None
  /\ last.chunk \in DOMAIN last.before
  /\ last.chunk \notin DOMAIN lod_map
  /\ LoadedLod(last.before, last.chunk) \in LodIndexes
  /\ BlockIds(last.chunk, LoadedLod(last.before, last.chunk)) # {}
  /\ scenario = 4

\* C16. Placeholder set consistency: after every loader call, successful or
\* reverted, a chunk has a placeholder in the in-progress set if and only if
\* the map records Placeholder as the chunk's loaded LOD.
C16_PlaceholderConsistency ==
  \A c \in Chunks :
    c \in in_progress_terrain <=> LoadedLod(lod_map, c) = Placeholder

\* C17. No delta, no side effects: a loader call for which the map reports
\* no LodChange returns true, calls nothing but the map, leaves the physics,
\* the GPU buffers and the in-progress set as they were, and changes nothing
\* in the map but the calling owner's demand for that chunk.
C17_NoDeltaNoSideEffects ==
  [][ (last'.op \in {"increase_lod", "decrease_lod"} /\ ~last'.change.some) =>
        /\ last'.success
        /\ ops' = << Op("lod_map." \o last'.op, last'.chunk, last'.target, last'.owner) >>
        /\ physics' = physics
        /\ vram_ids' = vram_ids
        /\ vram_block_data' = vram_block_data
        /\ in_progress_terrain' = in_progress_terrain
        /\ \A c \in Chunks :
             /\ LoadedLod(lod_map', c) = LoadedLod(lod_map, c)
             /\ \A o \in Owners :
                  (c # last'.chunk \/ o # last'.owner) =>
                    OwnerLods(lod_map', c)[o] = OwnerLods(lod_map, c)[o]
    ]_vars

\* An owner changed its demand for a chunk that stays loaded, with shapes in
\* the physics, at the finer LOD another owner demands: no LodChange.
C17_Witness ==
  /\ LoaderCalled /\ ~last.change.some
  /\ last.target # last.prev_lod
  /\ LoadedLod(lod_map, last.chunk) \in LodIndexes
  /\ PhysicsOf(last.chunk, LoadedLod(lod_map, last.chunk)) # {}
  /\ VramOf(last.chunk, LoadedLod(lod_map, last.chunk)) # {}


\* -------------------------------------------- properties of the update thread
Made(st, call) == \E k \in 1..Len(st.calls) : st.calls[k] = call

FullIteration ==
  <<"process_server_updates", "update_surroundings", "process_voxel_updates">>

AtLimit(pending) == Cardinality(pending) >= MAX_OUTSTANDING_TERRAIN_REQUESTS

\* C11. Backpressure stops the surroundings phase: a turn of update_surroundings
\* that finds the pending set at MAX_OUTSTANDING_TERRAIN_REQUESTS takes no
\* entry from the enumerator, makes no load, downgrade or unload and sends no
\* request, leaves the pending set as it is and ends the phase; an entry is
\* taken only with the set below the limit; and each phase enumerates from the
\* player's current position.
C11_BackpressureStopsPhase ==
  /\ (step.phase = "update_surroundings" /\ AtLimit(step.pending_before)) =>
       /\ step.blocked /\ ~step.entry
       /\ step.calls = <<>>
       /\ step.ended /\ pc = "process_voxel_updates"
       /\ pending_terrain_requests = step.pending_before
  /\ (step.phase = "update_surroundings" /\ (step.entry \/ step.calls # <<>>)) =>
       ~AtLimit(step.pending_before)
  /\ pc = "update_surroundings" => updates_from = player_position

\* The phase was stopped in a later turn, by the request of an earlier turn
\* of the same phase.
C11_Witness ==
  /\ step.phase = "update_surroundings" /\ step.blocked /\ ~step.first
  /\ pending_terrain_requests # {}

\* C12. Phase ordering: the phases started in an iteration are, in this
\* order, process_server_updates, update_surroundings, process_voxel_updates,
\* each started when the one before it has returned; an iteration ends with
\* all three; and a pair the drain of this iteration removed is not pending
\* when update_surroundings makes its first backpressure check.
C12_PhaseOrdering ==
  /\ pc = "process_server_updates" => phases = SubSeq(FullIteration, 1, 1)
  /\ pc = "update_surroundings" => phases = SubSeq(FullIteration, 1, 2)
  /\ pc = "process_voxel_updates" => phases = FullIteration
  /\ pc \in {"update_loop", "done"} => phases \in {<<>>, FullIteration}
  /\ (pc = "update_loop" /\ step.phase # "new") => phases = FullIteration
  /\ (pc = "update_surroundings" /\ loop_i = 0) =>
       removed_in_drain \cap pending_terrain_requests = {}
  /\ (step.phase = "update_surroundings" /\ step.first) =>
       removed_in_drain \cap step.pending_before = {}

\* The drain removed the pending request, and the first turn of
\* update_surroundings of the same iteration passed the backpressure check.
C12_Witness ==
  /\ step.phase = "update_surroundings" /\ step.first
  /\ removed_in_drain # {}
  /\ ~step.blocked /\ step.entry

\* C13. Cancellation: the loop is left only from the start of an iteration
\* with the quit flag set, and then no further phase starts; a phase that has
\* started is followed by the next one whatever the flag, so that the loop is
\* left with all three phases of the last iteration done; and once the flag
\* is set the loop is eventually left.
C13_Cancellation ==
  /\ [][ /\ (pc' = "done" /\ pc # "done") => (pc = "update_loop" /\ quit)
         /\ (pc = "update_loop" /\ quit /\ pc' # pc) => pc' = "done"
         /\ (pc = "update_loop" /\ ~quit /\ pc' # pc) => pc' = "process_server_updates"
         /\ (pc = "process_server_updates" /\ pc' # pc) => pc' = "update_surroundings"
         /\ (pc = "update_surroundings" /\ pc' # pc) => pc' = "process_voxel_updates"
         /\ (pc = "process_voxel_updates" /\ pc' # pc) => pc' = "update_loop"
         /\ pc = "done" => pc' = "done"
         /\ quit => quit'
       ]_vars
  /\ [](pc = "done" => (quit /\ phases \in {<<>>, FullIteration}))
  /\ (quit ~> pc = "done")

\* The loop was left after an iteration that sent a request.
C13_Witness ==
  /\ pc = "done" /\ phases = FullIteration
  /\ pending_terrain_requests # {}

\* C18. The drain terminates: it is left when recv_server returns None and at
\* the first clock sample once the budget is exceeded; the clock is sampled
\* with the 12th update and then with every 10th (never more than 11, then 9,
\* updates have been applied since the last sample without one), so that no
\* more than that many are applied over budget; and the drain is always left
\* eventually.
C18_DrainTerminates ==
  /\ [](pc = "process_server_updates" =>
          since_sample <= (IF sampled THEN 9 ELSE 11))
  /\ [][ /\ ( /\ pc = "process_server_updates" /\ over_budget
              /\ step'.phase = "process_server_updates"
              /\ Made(step', "precise_time_ns") ) => pc' # pc
         /\ ( /\ pc = "process_server_updates" /\ inbound = <<>>
              /\ step' # step ) => pc' # pc
         /\ ( /\ pc = "process_server_updates" /\ pc' = pc /\ step' # step
              /\ ~Made(step', "precise_time_ns") ) =>
              since_sample' = since_sample + 1
       ]_vars
  /\ (pc = "process_server_updates" ~> pc # "process_server_updates")

\* The inbound source kept the drain running past a clock sample, and the
\* drain, over budget, is about to apply its 10th update since.
C18_Witness ==
  /\ pc = "process_server_updates"
  /\ sampled /\ since_sample = 9 /\ over_budget
  /\ inbound # <<>>

\* C19. Backpressure heals: once update_surroundings was stopped by the
\* pending set, the set eventually drops below the limit and a later turn of
\* update_surroundings passes the backpressure check, unless the loop is left.
C19_SelfHealing ==
  /\ ((step.phase = "update_surroundings" /\ step.blocked) ~>
        (~AtLimit(pending_terrain_requests) \/ pc = "done"))
  /\ ((step.phase = "update_surroundings" /\ step.blocked) ~>
        ((step.phase = "update_surroundings" /\ ~step.blocked) \/ pc = "done"))

\* After the answer arrived, the first turn of update_surroundings took an
\* entry again and requested a missing chunk.
C19_Witness ==
  /\ step.phase = "update_surroundings" /\ step.first /\ ~step.blocked
  /\ removed_in_drain # {}
  /\ step.result = "ChunkMissing" /\ Made(step, "update_server")

\* The pairs of the chunk data waiting in the inbound queue.
InboundPairs ==
  { <<inbound[k].position, inbound[k].lg_voxel_size>> :
      k \in {j \in 1..Len(inbound) : inbound[j].kind = "Chunk"} }

\* C20. Requests are accounted for: update_surroundings sends a request only
\* for a load or downgrade that returned ChunkMissing, after inserting the
\* pair into the pending set; Success, AlreadyLoaded and an unload send
\* nothing and leave the set as it was; every request that is at the server
\* or whose data is still in the inbound queue has its pair in the set.
C20_RequestsAccounted ==
  /\ at_server \cup InboundPairs \subseteq pending_terrain_requests
  /\ (step.phase = "update_surroundings" /\ Made(step, "update_server")) =>
       /\ step.load_type \in {"Load", "Downgrade"}
       /\ step.result = "ChunkMissing"
       /\ step.calls = <<"terrain.try_load_chunk", "pending_terrain_requests.insert",
                         "update_server">>
       /\ step.pair \in pending_terrain_requests
  /\ ( /\ step.phase = "update_surroundings" /\ step.entry
       /\ (step.load_type = "Unload" \/ step.result \in {"Success", "AlreadyLoaded"}) ) =>
       /\ ~Made(step, "update_server")
       /\ pending_terrain_requests = step.pending_before

\* A downgrade found its chunk missing and the request is at the server.
C20_Witness ==
  /\ step.phase = "update_surroundings" /\ Made(step, "update_server")
  /\ step.load_type = "Downgrade"
  /\ step.pair \in at_server


\* ------------------------------------------------------ properties of the view
\* The sub-updates of an update in list order, nested batches in place.
RECURSIVE Flatten(_)
RECURSIVE FlattenFrom(_, _)
FlattenFrom(updates, k) ==
  IF k > Len(updates) THEN <<>>
  ELSE Flatten(updates[k]) \o FlattenFrom(updates, k + 1)
Flatten(up) == IF up.kind = "Atomic" THEN FlattenFrom(up.updates, 1) ELSE <<up>>

\* The updates of a list applied one after another, each by its own call.
RECURSIVE OneAfterAnother(_, _, _)
OneAfterAnother(v, leaves, k) ==
  IF k > Len(leaves) THEN v
  ELSE OneAfterAnother(apply_leaf(v, leaves[k]), leaves, k + 1)

\* C15. Atomic view batch: one call of apply_client_to_view with an Atomic
\* applies every sub-update exactly once and in list order, nested batches in
\* place (the view's log of applied updates grows by exactly that list), and
\* leaves the view in the state the sub-updates applied one after another
\* leave it in.
C15_AtomicBatch ==
  view_pc = "applied" =>
    /\ view.log = view_before.log \o Flatten(view_up)
    /\ view = OneAfterAnother(view_before, Flatten(view_up), 1)

\* A batch with a nested batch first was applied, its sub-updates do not
\* commute, and the view changed.
C15_Witness ==
  /\ view_pc = "applied"
  /\ view_up.kind = "Atomic" /\ Len(view_up.updates) = 2
  /\ view_up.updates[1].kind = "Atomic" /\ Len(view_up.updates[1].updates) = 2
  /\ view_up.updates[2].kind # "Atomic"
  /\ Len(view.log) = 3
  /\ view # [view_before EXCEPT !.log = view.log]
  /\ view # apply_updates_reversed(view_before, Flatten(view_up), 1)


\* The order in which the update thread may take a mutex while holding
\* another: a mutex is only taken while mutexes of a lower rank are held.
LockRank(mutex) ==
  CASE mutex = "surroundings_loader" -> 1
    [] mutex = "terrain" -> 2
    [] mutex = "rng" -> 3
    [] OTHER -> 4

ShortLived == {"pending_terrain_requests", "player_position"}

\* C21: the update thread never locks a mutex it holds; a lock of
\* pending_terrain_requests or of player_position is released by the very
\* next lock call and is never held between steps; a mutex is taken only
\* while mutexes that come before it in one fixed order are held
\* (surroundings_loader, then terrain, then rng, then pending_terrain_requests
\* or player_position); update_surroundings holds exactly surroundings_loader
\* and terrain between its turns and every other phase starts holding nothing.
C21_LockDiscipline ==
  /\ ~locks.stuck
  /\ ~Relocks(locks.before, locks.log)
  /\ \A k \in 1..Len(locks.log) :
       locks.log[k].op = "lock" =>
         /\ locks.log[k].mutex \in ShortLived =>
              /\ k < Len(locks.log)
              /\ locks.log[k + 1] = Unlock(locks.log[k].mutex)
         /\ LET h == HeldAfter(locks.before, locks.log, k - 1)
            IN  \A j \in 1..Len(h) :
                  LockRank(h[j]) < LockRank(locks.log[k].mutex)
  /\ \A j \in 1..Len(locks.held) : locks.held[j] \notin ShortLived
  /\ locks.held = IF pc = "update_surroundings"
                  THEN << "surroundings_loader", "terrain" >>
                  ELSE <<>>

\* A turn of update_surroundings that began holding surroundings_loader and
\* terrain checked the pending set, loaded with the rng and inserted a
\* request that it sent.
C21_Witness ==
  /\ step.phase = "update_surroundings"
  /\ Made(step, "update_server")
  /\ locks.before = << "surroundings_loader", "terrain" >>
  /\ locks.log = << Lock("pending_terrain_requests"),
                    Unlock("pending_terrain_requests"),
                    Lock("rng"), Unlock("rng"),
                    Lock("pending_terrain_requests"),
                    Unlock("pending_terrain_requests") >>

=============================================================================
